---- MODULE Spec2Model ----
(***************************************************************************)
(* A model of placeholder-collection-gen.py: the attribute generator, the  *)
(* metadata synthesizer and writer, the image fetcher and the interactive  *)
(* driver.                                                                 *)
(*                                                                         *)
(* Text is a sequence of tokens (<<"1", "2">> is str(12)), a path is a     *)
(* sequence of path components, each component a text.  The file system is *)
(* `dirs` (the directories that exist) and `files` (a function from the    *)
(* paths of the files that exist to their contents).  Random draws, the    *)
(* console and the remote image host are inputs: each is drawn with \E.    *)
(***************************************************************************)
EXTENDS Integers, Sequences, FiniteSets, TLC

VARIABLES
    num_files,             \* NUM_FILES as configured
    num_one_of_one,        \* NUM_ONE_OF_ONE as configured
    num_edition,           \* NUM_EDITION as configured
    separate_token_types,  \* SEPARATE_TOKEN_TYPES as configured
    ipfs_folder,           \* IPFS_FOLDER as configured (a text)
    pc,                    \* where control is
    i,                     \* the loop variable / the index argument
    metadata,              \* the last record generate_nft_metadata returned
    attributes,            \* the last list generate_attributes returned
    dirs,                  \* file system: the directories that exist
    files,                 \* file system: the files that exist, with their contents
    ret,                   \* where download_random_images returns to
    ind_start,             \* arguments of download_random_images
    ind_end,
    err_cnt,               \* local err_cnt of download_random_images
    requests,              \* the URLs of the requests.get calls of the current fetcher run
    sleeps,                \* the number of sleep(0.5) calls of the current fetcher run
    log,                   \* per iteration of the current fetcher run: what it printed last
    printed,               \* the count in the last "Finished with ... errors" line
    saved,                 \* the indices image.save has completed for, in any run
    failed,                \* the indices whose iteration raised, in any run
    at_call,               \* the files as they were when the current fetcher run was called
    written,               \* the indices the current metadata run has saved, in order
    inputs,                \* what input() has returned so far
    runs                   \* the operations main has started, in order

config == <<num_files, num_one_of_one, num_edition, separate_token_types, ipfs_folder>>
fs == <<dirs, files>>
fetcher == <<ret, ind_start, ind_end, err_cnt, requests, sleeps, log, printed, saved, failed,
             at_call>>
console == <<inputs, runs>>
vars == <<config, pc, i, metadata, attributes, fs, fetcher, written, console>>

(***************************************************************************)
(* Bounds of the model.                                                    *)
(***************************************************************************)
MaxDraw == 82       \* raw random draws are 0..MaxDraw (Age has 83 values)
MaxCfg == 4         \* small configurations: N, K1, K2 in 0..MaxCfg
MaxIndex == 3       \* download_random_images is called with indices in 0..MaxIndex
MaxFiles == 2       \* the driver runs with NUM_FILES in 0..MaxFiles
MaxInputs == 3      \* the driver reads at most MaxInputs lines

(***************************************************************************)
(* Configuration constants of the script.                                  *)
(***************************************************************************)
NUM_FILES == 520
NUM_ONE_OF_ONE == 10
NUM_EDITION == 10
SEPARATE_TOKEN_TYPES == TRUE
OUTPUT_FOLDER == << <<"data">>, <<"json-metadata">> >>
DOWNLOAD_DIR == << <<"data">>, <<"downloaded-images">> >>
IMAGE_BASE_URL == <<"https://vole.wtf/this-mp-does-not-exist/mp/mp">>

(***************************************************************************)
(* Text helpers: str(), str.rstrip('/'), right-aligned padding.            *)
(***************************************************************************)
Digit(d) == <<"0", "1", "2", "3", "4", "5", "6", "7", "8", "9">>[d + 1]

RECURSIVE Str(_)
Str(n) == IF n < 10 THEN <<Digit(n)>> ELSE Append(Str(n \div 10), Digit(n % 10))

RECURSIVE RStrip(_, _)
RStrip(s, ch) ==
    IF s # <<>> /\ s[Len(s)] = ch THEN RStrip(SubSeq(s, 1, Len(s) - 1), ch) ELSE s

RECURSIVE PadLeft(_, _, _)
PadLeft(s, fill, width) ==
    IF Len(s) >= width THEN s ELSE PadLeft(<<fill>> \o s, fill, width)

(***************************************************************************)
(* random.randint, random.choice and random.sample as functions of the     *)
(* raw draw.                                                               *)
(***************************************************************************)
\* faulty variant: the upper end is open by one
RandIntPastEnd(a, b, r) == a + (r % (b - a + 2))

RandInt(a, b, r) == a + (r % (b - a + 1))

RandChoice(list, r) == list[1 + (r % Len(list))]

\* random.sample(population, k): every list of k distinct positions
RandSample(population, k) ==
    {s \in [1..k -> 1..Len(population)] :
        \A x, y \in 1..k : x # y => s[x] # s[y]}

(***************************************************************************)
(* generate_attributes                                                     *)
(***************************************************************************)
possible_attributes ==
    << [name |-> "Height", value_range |-> <<150, 210>>],
       [name |-> "Hair", value_list |-> <<"Black", "Brown", "Blonde", "Red", "Gray">>],
       [name |-> "Age", value_range |-> <<18, 100>>],
       [name |-> "Eye Color", value_list |-> <<"Blue", "Green", "Brown", "Hazel", "Gray">>],
       [name |-> "Nationality",
        value_list |-> <<"American", "British", "Canadian", "Australian", "French", "German">>],
       [name |-> "Hobby",
        value_list |-> <<"Photography", "Painting", "Hiking", "Gaming", "Cooking", "Traveling">>] >>

\* the body of the for loop: one attribute from its definition and a raw draw
Attribute(attr, r) ==
    IF "value_range" \in DOMAIN attr
    THEN [name |-> attr.name, value |-> RandInt(attr.value_range[1], attr.value_range[2], r)]
    ELSE IF "value_list" \in DOMAIN attr
    THEN [name |-> attr.name, value |-> RandChoice(attr.value_list, r)]
    ELSE [name |-> attr.name]

\* the list returned for the sampled positions `selected` and the draws `rs`
generate_attributes(selected, rs) ==
    [k \in 1..Len(selected) |-> Attribute(possible_attributes[selected[k]], rs[k])]

(***************************************************************************)
(* generate_nft_metadata                                                   *)
(***************************************************************************)
\* faulty variant: the Edition test includes its upper threshold
TokenTypeInclusive(index) ==
    IF index >= num_files - (num_one_of_one + num_edition)
    THEN IF index <= num_files - num_one_of_one THEN "Edition" ELSE "One of one"
    ELSE "Folio"

\* faulty variant: the Folio test includes its threshold
TokenTypeStrict(index) ==
    IF index > num_files - (num_one_of_one + num_edition)
    THEN IF index < num_files - num_one_of_one THEN "Edition" ELSE "One of one"
    ELSE "Folio"

TokenType(index) ==
    IF index >= num_files - (num_one_of_one + num_edition)
    THEN IF index < num_files - num_one_of_one THEN "Edition" ELSE "One of one"
    ELSE "Folio"

\* faulty variant: the trailing '/' of IPFS_FOLDER is kept
generate_nft_metadata_unstripped(index, attrs) ==
    [name |-> <<"Fake MP ">> \o Str(index),
     description |-> <<"This is the item with id ">> \o Str(index)
                        \o <<" in the fake MP collection">>,
     image |-> ipfs_folder \o <<"/">> \o Str(index) \o <<".jpg">>,
     token_type |-> TokenType(index),
     attributes |-> attrs]

generate_nft_metadata(index, attrs) ==
    [name |-> <<"Fake MP ">> \o Str(index),
     description |-> <<"This is the item with id ">> \o Str(index)
                        \o <<" in the fake MP collection">>,
     image |-> RStrip(ipfs_folder, "/") \o <<"/">> \o Str(index) \o <<".jpg">>,
     token_type |-> TokenType(index),
     attributes |-> attrs]

(***************************************************************************)
(* Initial values shared by the specifications.                            *)
(***************************************************************************)
\* IPFS_FOLDER comes from constants.MY_IPFS_FOLDER, "with or without '/'"
IpfsFolders == { <<"ipfs://", "folder">>, <<"ipfs://", "folder", "/">>,
                 <<"ipfs://", "folder", "/", "/">> }

ConfiguredAsShipped ==
    /\ num_files = NUM_FILES
    /\ num_one_of_one = NUM_ONE_OF_ONE
    /\ num_edition = NUM_EDITION
    /\ separate_token_types = SEPARATE_TOKEN_TYPES

NothingFetched ==
    /\ ret = "none"
    /\ ind_start = 0
    /\ ind_end = 0
    /\ err_cnt = 0
    /\ requests = <<>>
    /\ sleeps = 0
    /\ log = <<>>
    /\ printed = -1
    /\ saved = {}
    /\ failed = {}
    /\ at_call = <<>>

NothingRead ==
    /\ written = <<>>
    /\ inputs = <<>>
    /\ runs = <<>>

EmptyDisk ==
    /\ dirs = {}
    /\ files = <<>>

(***************************************************************************)
(* Specification SpecAttr: one call of generate_attributes, over every     *)
(* outcome of its random draws.                                            *)
(***************************************************************************)
InitAttr ==
    /\ ConfiguredAsShipped
    /\ ipfs_folder \in IpfsFolders
    /\ pc = "start"
    /\ i = 0
    /\ metadata = <<>>
    /\ attributes = <<>>
    /\ EmptyDisk
    /\ NothingFetched
    /\ NothingRead

CallGenerateAttributes ==
    /\ pc = "start"
    /\ \E num_attributes \in 0..2 :
         \E selected_attributes \in RandSample(possible_attributes, num_attributes) :
           \E rs \in [1..num_attributes -> 0..MaxDraw] :
             attributes' = generate_attributes(selected_attributes, rs)
    /\ pc' = "returned"
    /\ UNCHANGED <<config, i, metadata, fs, fetcher, written, console>>

NextAttr == CallGenerateAttributes

SpecAttr == InitAttr /\ [][NextAttr]_vars

(***************************************************************************)
(* Specification SpecSynth: one call of generate_nft_metadata(index), for  *)
(* the shipped configuration and for every small one, valid or not.        *)
(***************************************************************************)
\* the attribute lists the calls of SpecSynth and the driver draw from
DrawnAttributes ==
    {generate_attributes(<<>>, <<>>), generate_attributes(<<3, 2>>, <<MaxDraw, 0>>)}

InitSynth ==
    /\ \/ ConfiguredAsShipped
       \/ /\ num_files \in 0..MaxCfg
          /\ num_one_of_one \in 0..MaxCfg
          /\ num_edition \in 0..MaxCfg
          /\ separate_token_types \in BOOLEAN
    /\ ipfs_folder \in IpfsFolders
    /\ pc = "start"
    /\ i = 0
    /\ metadata = <<>>
    /\ attributes = <<>>
    /\ EmptyDisk
    /\ NothingFetched
    /\ NothingRead

CallGenerateNftMetadata ==
    /\ pc = "start"
    /\ \E index \in 0..(num_files - 1) :
         \E attrs \in DrawnAttributes :
           /\ i' = index
           /\ attributes' = attrs
           /\ metadata' = generate_nft_metadata(index, attrs)
    /\ pc' = "returned"
    /\ UNCHANGED <<config, fs, fetcher, written, console>>

NextSynth == CallGenerateNftMetadata

SpecSynth == InitSynth /\ [][NextSynth]_vars

(***************************************************************************)
(* The file system: os.path.join, Path.exists, mkdir(parents=True,         *)
(* exist_ok=True) / os.makedirs, and open(fname, 'w') followed by a write. *)
(***************************************************************************)
Join(path, name) == Append(path, name)

\* faulty variant: only directories count
ExistsAsDirectory(path) == path \in dirs

Exists(path) == path \in dirs \/ path \in DOMAIN files

MkdirParents(path) == dirs \cup {SubSeq(path, 1, k) : k \in 1..Len(path)}

Write(path, content) == (path :> content) @@ files

(***************************************************************************)
(* save_metadata_to_file(folder, index, metadata), acting on the file      *)
(* system; `ok` tells whether open() found the directory.                  *)
(***************************************************************************)
MetadataDir(folder, md) ==
    IF separate_token_types THEN Join(folder, <<md.token_type>>) ELSE folder

\* faulty variant: the file name gets a .json extension
MetadataPathJson(folder, index, md) ==
    Join(MetadataDir(folder, md), Str(index) \o <<".json">>)

MetadataPath(folder, index, md) == Join(MetadataDir(folder, md), Str(index))

save_metadata_to_file(folder, index, md, ok) ==
    /\ dirs' = IF separate_token_types THEN MkdirParents(MetadataDir(folder, md)) ELSE dirs
    /\ ok = (MetadataDir(folder, md) \in dirs')
    /\ files' = IF ok THEN Write(MetadataPath(folder, index, md), md) ELSE files

(***************************************************************************)
(* download_random_images(ind_start, ind_end, base_url, download_dir)      *)
(***************************************************************************)
\* what the remote host may answer with: it serves a new random image each time
Payloads == {"image A", "image B"}

ImagePath(download_dir, index) == Join(download_dir, Str(index) \o <<".jpg">>)

ImageUrl(base_url, index) == base_url \o PadLeft(Str(index), "0", 5) \o <<".jpg">>

\* the call: lines 125-127 and the first evaluation of range(ind_start, ind_end)
EnterDownload(start, end, return_to) ==
    /\ dirs' = MkdirParents(DOWNLOAD_DIR)
    /\ ind_start' = start
    /\ ind_end' = end
    /\ ret' = return_to
    /\ err_cnt' = 0
    /\ i' = start
    /\ requests' = <<>>
    /\ sleeps' = 0
    /\ log' = <<>>
    /\ at_call' = files
    /\ pc' = "fetch"
    /\ UNCHANGED <<files, printed, saved, failed>>

\* faulty variant: the skip falls through to the sleep
FetchSkipThenSleep ==
    /\ pc = "fetch"
    /\ i < ind_end
    /\ Exists(ImagePath(DOWNLOAD_DIR, i))
    /\ log' = Append(log, [index |-> i, line |-> "exists, skipping"])
    /\ sleeps' = sleeps + 1
    /\ i' = i + 1
    /\ UNCHANGED <<config, pc, metadata, attributes, fs, ret, ind_start, ind_end, err_cnt,
                   requests, printed, saved, failed, at_call, written, console>>

\* an iteration whose file exists: the notice, then `continue`
FetchSkip ==
    /\ pc = "fetch"
    /\ i < ind_end
    /\ Exists(ImagePath(DOWNLOAD_DIR, i))
    /\ log' = Append(log, [index |-> i, line |-> "exists, skipping"])
    /\ i' = i + 1
    /\ UNCHANGED <<config, pc, metadata, attributes, fs, ret, ind_start, ind_end, err_cnt,
                   requests, sleeps, printed, saved, failed, at_call, written, console>>

\* an iteration that gets, decodes and saves the image, then sleeps
FetchSuccess ==
    /\ pc = "fetch"
    /\ i < ind_end
    /\ ~Exists(ImagePath(DOWNLOAD_DIR, i))
    /\ requests' = Append(requests, ImageUrl(IMAGE_BASE_URL, i))
    /\ \E image \in Payloads : files' = Write(ImagePath(DOWNLOAD_DIR, i), image)
    /\ saved' = saved \cup {i}
    /\ log' = Append(log, [index |-> i, line |-> "Successfully downloaded"])
    /\ sleeps' = sleeps + 1
    /\ i' = i + 1
    /\ UNCHANGED <<config, pc, metadata, attributes, dirs, ret, ind_start, ind_end, err_cnt,
                   printed, failed, at_call, written, console>>

\* faulty variant: the exception is not handled and ends the call
FetchRaiseAborts ==
    /\ pc = "fetch"
    /\ i < ind_end
    /\ ~Exists(ImagePath(DOWNLOAD_DIR, i))
    /\ requests' = Append(requests, ImageUrl(IMAGE_BASE_URL, i))
    /\ failed' = failed \cup {i}
    /\ log' = Append(log, [index |-> i, line |-> "Error downloading"])
    /\ pc' = ret
    /\ UNCHANGED <<config, i, metadata, attributes, fs, ret, ind_start, ind_end, err_cnt,
                   sleeps, printed, saved, at_call, written, console>>

\* faulty variant: the failed save leaves a truncated file behind
FetchRaiseLeavesFile ==
    /\ pc = "fetch"
    /\ i < ind_end
    /\ ~Exists(ImagePath(DOWNLOAD_DIR, i))
    /\ requests' = Append(requests, ImageUrl(IMAGE_BASE_URL, i))
    /\ files' = Write(ImagePath(DOWNLOAD_DIR, i), "truncated")
    /\ err_cnt' = err_cnt + 1
    /\ failed' = failed \cup {i}
    /\ log' = Append(log, [index |-> i, line |-> "Error downloading"])
    /\ sleeps' = sleeps + 1
    /\ i' = i + 1
    /\ UNCHANGED <<config, pc, metadata, attributes, dirs, ret, ind_start, ind_end,
                   printed, saved, at_call, written, console>>

\* an iteration in which requests.get, Image.open or image.save raises: the
\* handler counts it, then the loop sleeps.  A save that fails leaves no file
\* behind (Image.save removes the file it created when the encoder raises).
FetchRaise ==
    /\ pc = "fetch"
    /\ i < ind_end
    /\ ~Exists(ImagePath(DOWNLOAD_DIR, i))
    /\ requests' = Append(requests, ImageUrl(IMAGE_BASE_URL, i))
    /\ err_cnt' = err_cnt + 1
    /\ failed' = failed \cup {i}
    /\ log' = Append(log, [index |-> i, line |-> "Error downloading"])
    /\ sleeps' = sleeps + 1
    /\ i' = i + 1
    /\ UNCHANGED <<config, pc, metadata, attributes, fs, ret, ind_start, ind_end,
                   printed, saved, at_call, written, console>>

\* the range is exhausted: the summary line, and the return
FetchFinish ==
    /\ pc = "fetch"
    /\ i >= ind_end
    /\ printed' = err_cnt
    /\ pc' = ret
    /\ UNCHANGED <<config, i, metadata, attributes, fs, ret, ind_start, ind_end, err_cnt,
                   requests, sleeps, log, saved, failed, at_call, written, console>>

(***************************************************************************)
(* Specification SpecFetch: any number of calls of download_random_images  *)
(* over ranges within 0..MaxIndex, starting with no download folder.       *)
(***************************************************************************)
InitFetch ==
    /\ ConfiguredAsShipped
    /\ ipfs_folder \in IpfsFolders
    /\ pc = "caller"
    /\ i = 0
    /\ metadata = <<>>
    /\ attributes = <<>>
    /\ EmptyDisk
    /\ NothingFetched
    /\ NothingRead

CallDownloadRandomImages ==
    /\ pc = "caller"
    /\ \E start \in 0..MaxIndex, end \in 0..MaxIndex : EnterDownload(start, end, "caller")
    /\ UNCHANGED <<config, metadata, attributes, written, console>>

NextFetch ==
    \/ CallDownloadRandomImages
    \/ FetchSkip
    \/ FetchSuccess
    \/ FetchRaise
    \/ FetchFinish

SpecFetch == InitFetch /\ [][NextFetch]_vars

(***************************************************************************)
(* Specification Spec: main, from an empty disk.                           *)
(***************************************************************************)
\* what the operator may type
Choices == {"1", "2", "q", ""}

Init ==
    /\ num_files \in 1..MaxFiles
    /\ num_one_of_one \in 0..1
    /\ num_edition \in 0..1
    /\ separate_token_types \in BOOLEAN
    /\ ipfs_folder = <<"ipfs://", "folder", "/">>
    /\ pc = "prompt"
    /\ i = 0
    /\ metadata = <<>>
    /\ attributes = <<>>
    /\ EmptyDisk
    /\ NothingFetched
    /\ NothingRead

\* input() returns "q": break
ReadQuit ==
    /\ pc = "prompt"
    /\ Len(inputs) < MaxInputs
    /\ inputs' = Append(inputs, "q")
    /\ pc' = "done"
    /\ UNCHANGED <<config, i, metadata, attributes, fs, fetcher, written, runs>>

\* input() returns "1": download_random_images(0, NUM_FILES, ...) is entered
ReadDownload ==
    /\ pc = "prompt"
    /\ Len(inputs) < MaxInputs
    /\ inputs' = Append(inputs, "1")
    /\ runs' = Append(runs, [op |-> "download_random_images", range |-> <<0, num_files>>])
    /\ EnterDownload(0, num_files, "prompt")
    /\ UNCHANGED <<config, metadata, attributes, written>>

\* input() returns "2": the output folder is made, the for loop is entered
ReadGenerate ==
    /\ pc = "prompt"
    /\ Len(inputs) < MaxInputs
    /\ inputs' = Append(inputs, "2")
    /\ runs' = Append(runs, [op |-> "generate metadata", range |-> <<0, num_files>>])
    /\ dirs' = IF Exists(OUTPUT_FOLDER) THEN dirs ELSE MkdirParents(OUTPUT_FOLDER)
    /\ i' = 0
    /\ written' = <<>>
    /\ pc' = "generate"
    /\ UNCHANGED <<config, metadata, attributes, files, fetcher>>

\* faulty variant: an unknown input ends the loop
ReadOtherQuits ==
    /\ pc = "prompt"
    /\ Len(inputs) < MaxInputs
    /\ \E choice \in Choices \ {"1", "2", "q"} : inputs' = Append(inputs, choice)
    /\ pc' = "done"
    /\ UNCHANGED <<config, i, metadata, attributes, fs, fetcher, written, runs>>

\* input() returns anything else: back to the prompt
ReadOther ==
    /\ pc = "prompt"
    /\ Len(inputs) < MaxInputs
    /\ \E choice \in Choices \ {"1", "2", "q"} : inputs' = Append(inputs, choice)
    /\ UNCHANGED <<config, pc, i, metadata, attributes, fs, fetcher, written, runs>>

\* one iteration of the for loop of lines 167-169; open() raising ends main
GenerateStep ==
    /\ pc = "generate"
    /\ i < num_files
    /\ \E attrs \in DrawnAttributes, ok \in BOOLEAN :
         /\ attributes' = attrs
         /\ metadata' = generate_nft_metadata(i, attrs)
         /\ save_metadata_to_file(OUTPUT_FOLDER, i, metadata', ok)
         /\ pc' = IF ok THEN "generate" ELSE "raised"
         /\ written' = IF ok THEN Append(written, i) ELSE written
    /\ i' = i + 1
    /\ UNCHANGED <<config, fetcher, console>>

\* the for loop is exhausted: the completion line, back to the prompt
GenerateFinish ==
    /\ pc = "generate"
    /\ i >= num_files
    /\ pc' = "prompt"
    /\ UNCHANGED <<config, i, metadata, attributes, fs, fetcher, written, console>>

Next ==
    \/ ReadQuit
    \/ ReadDownload
    \/ ReadGenerate
    \/ ReadOther
    \/ GenerateStep
    \/ GenerateFinish
    \/ FetchSkip
    \/ FetchSuccess
    \/ FetchRaise
    \/ FetchFinish

Spec == Init /\ [][Next]_vars

(***************************************************************************)
(* Helpers of the properties.                                              *)
(***************************************************************************)
Min(a, b) == IF a <= b THEN a ELSE b
Max(a, b) == IF a >= b THEN a ELSE b

\* the indices of [0, N) that TokenType gives the category t
BlockOf(t) == {index \in 0..(num_files - 1) : TokenType(index) = t}

\* 0, 1, ..., n-1 as a list
Ascending(from, n) == [k \in 1..n |-> from + k - 1]

Indices(lg) == [k \in 1..Len(lg) |-> lg[k].index]

Lines(lg, line) == {k \in 1..Len(lg) : lg[k].line = line}

\* download_random_images has returned to its caller at least once
Returned == pc = "caller" /\ printed >= 0

(***************************************************************************)
(* C1: with K1 + K2 <= N, every index of [0, N) gets exactly one           *)
(* token_type and the categories are three contiguous blocks in the order  *)
(* Folio, Edition, "One of one": Folio is i < N-K1-K2, Edition is          *)
(* N-K1-K2 <= i < N-K1, "One of one" is i >= N-K1, of sizes N-K1-K2, K2    *)
(* and K1; with N=520, K1=K2=10: 0 and 499 are Folio, 500 and 509 Edition, *)
(* 510 and 519 "One of one".                                               *)
(***************************************************************************)
C1_CategoryBlocks ==
    num_one_of_one + num_edition <= num_files =>
        /\ BlockOf("Folio") = 0..(num_files - num_one_of_one - num_edition - 1)
        /\ BlockOf("Edition") =
               (num_files - num_one_of_one - num_edition)..(num_files - num_one_of_one - 1)
        /\ BlockOf("One of one") = (num_files - num_one_of_one)..(num_files - 1)
        /\ Cardinality(BlockOf("Folio")) = num_files - num_one_of_one - num_edition
        /\ Cardinality(BlockOf("Edition")) = num_edition
        /\ Cardinality(BlockOf("One of one")) = num_one_of_one
        /\ pc = "returned" =>
               /\ metadata.token_type \in {"Folio", "Edition", "One of one"}
               /\ i \in BlockOf(metadata.token_type)
               /\ (num_files = 520 /\ num_one_of_one = 10 /\ num_edition = 10) =>
                      /\ i \in {0, 499} => metadata.token_type = "Folio"
                      /\ i \in {500, 509} => metadata.token_type = "Edition"
                      /\ i \in {510, 519} => metadata.token_type = "One of one"

C1_Witness ==
    /\ pc = "returned"
    /\ num_files = 520 /\ num_one_of_one = 10 /\ num_edition = 10
    /\ i = 509
    /\ metadata.token_type = "Edition"

(***************************************************************************)
(* C2: every list generate_attributes returns has length 0, 1 or 2, has    *)
(* pairwise distinct names taken from the six-entry catalog, and every     *)
(* entry has a value in the declared range or list of its name: Height in  *)
(* 150..210, Age in 18..100, the others a member of their value list.      *)
(***************************************************************************)
DeclaredValues(name) ==
    CASE name = "Height" -> 150..210
      [] name = "Age" -> 18..100
      [] name = "Hair" -> {"Black", "Brown", "Blonde", "Red", "Gray"}
      [] name = "Eye Color" -> {"Blue", "Green", "Brown", "Hazel", "Gray"}
      [] name = "Nationality" ->
             {"American", "British", "Canadian", "Australian", "French", "German"}
      [] name = "Hobby" ->
             {"Photography", "Painting", "Hiking", "Gaming", "Cooking", "Traveling"}

C2_AttributesWellFormed ==
    pc = "returned" =>
        /\ Len(attributes) \in {0, 1, 2}
        /\ \A x, y \in 1..Len(attributes) : x # y => attributes[x].name # attributes[y].name
        /\ \A x \in 1..Len(attributes) :
             /\ attributes[x].name \in
                    {"Height", "Hair", "Age", "Eye Color", "Nationality", "Hobby"}
             /\ DOMAIN attributes[x] = {"name", "value"}
             /\ attributes[x].value \in DeclaredValues(attributes[x].name)

C2_Witness ==
    /\ pc = "returned"
    /\ Len(attributes) = 2
    /\ attributes[1] = [name |-> "Age", value |-> 100]
    /\ attributes[2] = [name |-> "Height", value |-> 210]

(***************************************************************************)
(* C3, as claimed: the delay occurs once per loop iteration whatever the   *)
(* outcome, so a run over [ind_start, ind_end) sleeps ind_end - ind_start  *)
(* times.                                                                  *)
(***************************************************************************)
C3_DelayEveryIteration ==
    (pc = "fetch" /\ i >= ind_end /\ ind_start <= ind_end) => sleeps = ind_end - ind_start

(***************************************************************************)
(* C3, amended: the delay occurs once per iteration that was not skipped   *)
(* (after a download and after a failure) and not after an index skipped   *)
(* because its file exists: a run over [ind_start, ind_end) sleeps         *)
(* ind_end - ind_start minus the number of skipped indices times.          *)
(***************************************************************************)
C3_DelayUnlessSkipped ==
    /\ pc = "fetch" => sleeps = Len(log) - Cardinality(Lines(log, "exists, skipping"))
    /\ (pc = "fetch" /\ i >= ind_end /\ ind_start <= ind_end) =>
           sleeps = (ind_end - ind_start) - Cardinality(Lines(log, "exists, skipping"))

C3_Witness ==
    /\ pc = "fetch"
    /\ i >= ind_end
    /\ ind_end - ind_start = 3
    /\ Lines(log, "exists, skipping") # {}
    /\ Lines(log, "Successfully downloaded") # {}
    /\ Lines(log, "Error downloading") # {}
    /\ sleeps = 2

(***************************************************************************)
(* C4: a failure at an index neither aborts the run nor is retried: the    *)
(* run goes through every index of the range exactly once, in ascending    *)
(* order, and the error count it reports is the number of indices whose    *)
(* iteration raised.                                                       *)
(***************************************************************************)
C4_FailuresCountedRunContinues ==
    /\ pc = "fetch" =>
           /\ Indices(log) = Ascending(ind_start, Len(log))
           /\ i = ind_start + Len(log)
           /\ err_cnt = Cardinality(Lines(log, "Error downloading"))
    /\ Returned =>
           /\ Indices(log) = Ascending(ind_start, Max(ind_end - ind_start, 0))
           /\ printed = Cardinality(Lines(log, "Error downloading"))

C4_Witness ==
    /\ Returned
    /\ Len(log) = 3
    /\ log[1].line = "Error downloading"
    /\ log[2].line = "Successfully downloaded"
    /\ log[3].line = "Error downloading"
    /\ printed = 2

(***************************************************************************)
(* C5: across runs, an iteration issues a request for its index exactly    *)
(* when that index was never saved before; a request either saves the      *)
(* image or is counted as an error; and no file that exists is rewritten   *)
(* or deleted by the fetcher.                                              *)
(***************************************************************************)
C5_RetriesOnlyUnsaved ==
    [][ (pc = "fetch" /\ i < ind_end) =>
            /\ (requests' # requests) <=> (i \notin saved)
            /\ (requests' # requests) =>
                   /\ requests' = Append(requests, ImageUrl(IMAGE_BASE_URL, i))
                   /\ \/ i \in saved' /\ err_cnt' = err_cnt
                      \/ i \notin saved' /\ err_cnt' = err_cnt + 1
            /\ \A path \in DOMAIN files :
                   path \in DOMAIN files' /\ files'[path] = files[path] ]_vars

\* a run that skips a saved index and saves one that failed in an earlier run
C5_Witness ==
    /\ pc = "fetch"
    /\ \E x, y \in 1..Len(log) :
         /\ log[x].line = "exists, skipping"
         /\ log[y].line = "Successfully downloaded"
         /\ log[y].index \in failed

(***************************************************************************)
(* C6: a run over a range whose every target file existed when it was      *)
(* called makes no request, ends with an error count of 0 and leaves every *)
(* file as it was.                                                         *)
(***************************************************************************)
AllExistedAtCall ==
    \A index \in ind_start..(ind_end - 1) : ImagePath(DOWNLOAD_DIR, index) \in DOMAIN at_call

C6_AllPresentIsNoOp ==
    ((pc = "fetch" \/ Returned) /\ AllExistedAtCall) =>
        /\ requests = <<>>
        /\ err_cnt = 0
        /\ files = at_call
        /\ Returned => printed = 0

C6_Witness ==
    /\ Returned
    /\ AllExistedAtCall
    /\ ind_end - ind_start >= 2
    /\ Len(log) = ind_end - ind_start
    /\ printed = 0

(***************************************************************************)
(* C7: save_metadata_to_file changes exactly one file, the extensionless   *)
(* <folder>/<token_type>/<index> with per-category separation on and       *)
(* <folder>/<index> otherwise; afterwards that file holds the record,      *)
(* whether or not it or its directory existed before, and every other file *)
(* is as it was.                                                           *)
(***************************************************************************)
TargetOf(index, md) ==
    IF separate_token_types
    THEN << <<"data">>, <<"json-metadata">>, <<md.token_type>>, Str(index) >>
    ELSE << <<"data">>, <<"json-metadata">>, Str(index) >>

C7_SaveWritesOneFile ==
    [][ (pc = "generate" /\ i < num_files) =>
            /\ DOMAIN files' = DOMAIN files \cup {TargetOf(i, metadata')}
            /\ files'[TargetOf(i, metadata')] = metadata'
            /\ \A path \in DOMAIN files \ {TargetOf(i, metadata')} :
                   files'[path] = files[path] ]_vars

\* a second metadata run has just overwritten the file of index 0, in a
\* subfolder that existed, next to a downloaded image
C7_Witness ==
    /\ pc = "generate"
    /\ separate_token_types
    /\ Cardinality({k \in 1..Len(runs) : runs[k].op = "generate metadata"}) = 2
    /\ written = <<0>>
    /\ saved # {}
    /\ files[TargetOf(0, metadata)] = metadata
    /\ metadata.attributes # <<>>

(***************************************************************************)
(* C8: main ends when it reads the first "q" and not before; until then    *)
(* each "1" runs the fetcher once over [0, N) and each "2" one metadata    *)
(* generation over 0, ..., N-1 in ascending order (making the output root  *)
(* when absent), in the order of the inputs; any other input changes       *)
(* nothing but the prompt count.                                           *)
(***************************************************************************)
IsCommand(choice) == choice \in {"1", "2"}

RunOf(choice) ==
    [op |-> IF choice = "1" THEN "download_random_images" ELSE "generate metadata",
     range |-> <<0, num_files>>]

Commands == SelectSeq(inputs, IsCommand)

C8_DriverState ==
    /\ (pc = "done") <=> (inputs # <<>> /\ inputs[Len(inputs)] = "q")
    /\ \A k \in 1..(Len(inputs) - 1) : inputs[k] # "q"
    /\ pc \in {"prompt", "fetch", "generate", "done"}
    /\ runs = [k \in 1..Len(Commands) |-> RunOf(Commands[k])]
    /\ pc = "fetch" => (inputs[Len(inputs)] = "1" /\ ind_start = 0 /\ ind_end = num_files)
    /\ pc = "generate" =>
           (inputs[Len(inputs)] = "2" /\ written = Ascending(0, i) /\ OUTPUT_FOLDER \in dirs)
    /\ (pc \in {"prompt", "done"} /\ \E k \in 1..Len(inputs) : inputs[k] = "1") =>
           (ind_start = 0 /\ ind_end = num_files /\ Indices(log) = Ascending(0, num_files))
    /\ (pc \in {"prompt", "done"} /\ \E k \in 1..Len(inputs) : inputs[k] = "2") =>
           (written = Ascending(0, num_files) /\ OUTPUT_FOLDER \in dirs)

C8_DriverLoop ==
    /\ []C8_DriverState
    /\ [][ /\ pc # "done"
           /\ (pc = "prompt" /\ ~IsCommand(inputs'[Len(inputs')])) =>
                  UNCHANGED <<config, i, metadata, attributes, fs, fetcher, written, runs>>
           /\ (pc = "prompt" /\ inputs'[Len(inputs')] \notin {"1", "2", "q"}) =>
                  pc' = "prompt" ]_vars

C8_Witness ==
    /\ pc = "done"
    /\ inputs = <<"2", "1", "q">>
    /\ num_files = 2
    /\ saved # {}
    /\ Len(written) = 2

(***************************************************************************)
(* C9: with K1 + K2 >= N no index of [0, N) is Folio, "One of one" is      *)
(* exactly the last min(K1, N) indices and Edition exactly the first       *)
(* max(N - K1, 0), so with K1 + K2 > N the Edition block has               *)
(* max(N - K1, 0) members rather than K2, and with K1 >= N every index is  *)
(* "One of one".                                                           *)
(***************************************************************************)
C9_OverlappingThresholds ==
    num_one_of_one + num_edition >= num_files =>
        /\ BlockOf("Folio") = {}
        /\ BlockOf("One of one") = (num_files - Min(num_one_of_one, num_files))..(num_files - 1)
        /\ BlockOf("Edition") = 0..(Max(num_files - num_one_of_one, 0) - 1)
        /\ Cardinality(BlockOf("Edition")) = Max(num_files - num_one_of_one, 0)
        /\ pc = "returned" =>
               /\ metadata.token_type =
                      IF i >= num_files - Min(num_one_of_one, num_files)
                      THEN "One of one" ELSE "Edition"
               /\ num_one_of_one >= num_files => metadata.token_type = "One of one"

C9_Witness ==
    /\ pc = "returned"
    /\ num_one_of_one + num_edition > num_files
    /\ num_one_of_one < num_files
    /\ metadata.token_type = "Edition"
    /\ Cardinality(BlockOf("Edition")) # num_edition

(***************************************************************************)
(* C10: from an empty output root, with per-category separation on, once a *)
(* metadata run has completed the metadata tree holds, for every index of  *)
(* [0, N), exactly one file, named by the index and in the subfolder of    *)
(* the index's category, and nothing else, however many metadata and       *)
(* fetcher runs follow; the name, description, image and token_type of     *)
(* each file are the same after every run.                                 *)
(***************************************************************************)
CategoryRule(index) ==
    IF index < num_files - (num_one_of_one + num_edition) THEN "Folio"
    ELSE IF index < num_files - num_one_of_one THEN "Edition"
    ELSE "One of one"

MetadataTree == {path \in DOMAIN files : SubSeq(path, 1, 2) = OUTPUT_FOLDER}

CompletedGenerations ==
    Cardinality({k \in 1..Len(runs) : runs[k].op = "generate metadata"})
        - (IF pc = "generate" THEN 1 ELSE 0)

C10_TreeAfterGeneration ==
    (separate_token_types /\ CompletedGenerations >= 1) =>
        /\ MetadataTree =
               {<< <<"data">>, <<"json-metadata">>, <<CategoryRule(index)>>, Str(index) >> :
                   index \in 0..(num_files - 1)}
        /\ \A index \in 0..(num_files - 1) :
             LET file == files[<< <<"data">>, <<"json-metadata">>, <<CategoryRule(index)>>,
                                  Str(index) >>]
             IN  /\ file.name = <<"Fake MP ">> \o Str(index)
                 /\ file.description = <<"This is the item with id ">> \o Str(index)
                                          \o <<" in the fake MP collection">>
                 /\ file.image = <<"ipfs://", "folder", "/">> \o Str(index) \o <<".jpg">>
                 /\ file.token_type = CategoryRule(index)

C10_Witness ==
    /\ pc = "prompt"
    /\ separate_token_types
    /\ inputs = <<"2", "1", "2">>
    /\ num_files = 2
    /\ num_one_of_one = 1
    /\ saved # {}
    /\ Cardinality(MetadataTree) = 2

====
